---------------------------- MODULE Spec2Model ----------------------------
(***************************************************************************)
(* A model of padloc's serialization layer                                 *)
(*   packages/core/src/encoding.ts   (Serializable, hexToBytes, bytesToHex)*)
(* and of the pl-select element                                            *)
(*   packages/app/src/elements/select.ts   (Select)                        *)
(*                                                                         *)
(* Three specifications share the module's variables:                      *)
(*   SpecHex     the hex codec applied to bounded inputs                   *)
(*   SpecSelect  the Select element driven by its owner, lit and the user  *)
(*   Spec        Serializable entities living in a heap of JS objects      *)
(* Each specification leaves the variables of the other two untouched.     *)
(***************************************************************************)
EXTENDS Integers, Sequences, FiniteSets, TLC

VARIABLES
    hexHist,        \* hex codec: the input followed by each conversion's result
    options,        \* Select.options
    selectedIndex,  \* Select.selectedIndex
    select,         \* Select._select, the rendered <select> ([rendered, count, selectedIndex])
    selLast,        \* Select: the last operation performed on the element
    heap,           \* Serializable: the JS heap, a sequence of objects
    pre,            \* Serializable: the heap as it was when the last operation began
    ret,            \* Serializable: the last operation and its outcome
    nops            \* Serializable: operations performed so far

hexVars == <<hexHist>>
selVars == <<options, selectedIndex, select, selLast>>
serVars == <<heap, pre, ret, nops>>
vars == <<hexHist, options, selectedIndex, select, selLast, heap, pre, ret, nops>>

(***************************************************************************)
(* JavaScript values.  A value is a record [k, v]: k is the type tag and v *)
(* the payload (a number, a string, or for k = "ref" the address of an     *)
(* object in the heap).                                                    *)
(***************************************************************************)
Undefined == [k |-> "undefined", v |-> 0]
Null      == [k |-> "null", v |-> 0]
NaN       == [k |-> "NaN", v |-> 0]
Num(n)    == [k |-> "num", v |-> n]
Str(s)    == [k |-> "str", v |-> s]
Ref(a)    == [k |-> "ref", v |-> a]

\* ToBoolean: the falsy values are undefined, null, NaN, 0 and "".
ToBoolean(x) ==
    CASE x.k = "undefined" -> FALSE
      [] x.k = "null" -> FALSE
      [] x.k = "NaN" -> FALSE
      [] x.k = "num" -> x.v # 0
      [] x.k = "str" -> x.v # ""
      [] OTHER -> TRUE

\* Strict equality (===): NaN equals nothing, objects are equal by identity.
StrictEquals(x, y) == x.k # "NaN" /\ x = y

(***************************************************************************)
(* Hex codec.  A string is a sequence of one-character strings.            *)
(***************************************************************************)
HexDigits == <<"0", "1", "2", "3", "4", "5", "6", "7", "8", "9",
               "a", "b", "c", "d", "e", "f">>
UpperHexDigits == <<"0", "1", "2", "3", "4", "5", "6", "7", "8", "9",
                    "A", "B", "C", "D", "E", "F">>

IsHexDigit(c) ==
    \E i \in 1..16 : HexDigits[i] = c \/ UpperHexDigits[i] = c

\* The value of a radix-16 digit.
DigitValue(c) ==
    (CHOOSE i \in 1..16 : HexDigits[i] = c \/ UpperHexDigits[i] = c) - 1

\* String.prototype.substring(start, end) for 0 <= start <= end, 0-based and
\* end-exclusive, clipped to the string.
substring(str, start, end) ==
    SubSeq(str, start + 1, IF end > Len(str) THEN Len(str) ELSE end)

RECURSIVE TrimStart(_)
\* The white space parseInt skips before the number.
TrimStart(s) ==
    IF s # <<>> /\ Head(s) = " " THEN TrimStart(Tail(s)) ELSE s

RECURSIVE DigitsPrefix(_)
\* The longest prefix of s made of radix-16 digits.
DigitsPrefix(s) ==
    IF s # <<>> /\ IsHexDigit(Head(s))
    THEN <<Head(s)>> \o DigitsPrefix(Tail(s))
    ELSE <<>>

RECURSIVE MathValue(_)
\* The number a sequence of radix-16 digits denotes.
MathValue(z) ==
    IF z = <<>> THEN 0
    ELSE 16 * MathValue(SubSeq(z, 1, Len(z) - 1)) + DigitValue(z[Len(z)])

\* parseInt(string, 16): skip white space, take a sign, strip a 0x or 0X
\* prefix, read the longest run of hex digits and ignore what follows it;
\* NaN when that run is empty.
parseInt(string) ==
    LET S == TrimStart(string)
        neg == S # <<>> /\ Head(S) = "-"
        S1 == IF S # <<>> /\ Head(S) \in {"+", "-"} THEN Tail(S) ELSE S
        S2 == IF Len(S1) >= 2 /\ S1[1] = "0" /\ S1[2] \in {"x", "X"}
              THEN SubSeq(S1, 3, Len(S1)) ELSE S1
        Z == DigitsPrefix(S2)
    IN  IF Z = <<>> THEN NaN
        ELSE Num(IF neg THEN 0 - MathValue(Z) ELSE MathValue(Z))

\* Storing a number into a Uint8Array element: NaN becomes 0, any other
\* number is taken modulo 2^8.
ToUint8(x) == IF x.k = "NaN" THEN 0 ELSE x.v % 256

\* hexToBytes(str).  new Uint8Array(str.length / 2) truncates a fractional
\* length, so an odd-length string loses its last character.  Nothing in the
\* try block throws for a string argument, so the catch clause is never
\* entered: the result is always a byte array.
hexToBytes(str) ==
    [k |-> "bytes",
     v |-> [i \in 1..(Len(str) \div 2) |->
              ToUint8(parseInt(substring(str, (i - 1) * 2, (i - 1) * 2 + 2)))]]

\* toString16 as it would be were the digits upper case: b.toString(16)
\* followed by toUpperCase().
toString16UpperCase(b) ==
    IF b < 16 THEN <<UpperHexDigits[b + 1]>>
    ELSE <<UpperHexDigits[(b \div 16) + 1], UpperHexDigits[(b % 16) + 1]>>

\* Number.prototype.toString(16) for a byte.
toString16(b) ==
    IF b < 16 THEN <<HexDigits[b + 1]>>
    ELSE <<HexDigits[(b \div 16) + 1], HexDigits[(b % 16) + 1]>>

RECURSIVE bytesToHexLoop(_)
bytesToHexLoop(bytes) ==
    IF bytes = <<>> THEN <<>>
    ELSE LET s == toString16(Head(bytes))
         IN  (IF Len(s) = 1 THEN <<"0">> \o s ELSE s) \o bytesToHexLoop(Tail(bytes))

\* bytesToHex(bytes)
bytesToHex(bytes) == [k |-> "str", v |-> bytesToHexLoop(bytes)]

\* Bounds of the hex inputs.
MaxStrLen == 3
MaxBytesLen == 2
MaxPipe == 3

\* Characters of the input strings: hex digits of both cases and characters
\* that are not hex digits.
InputChars == {"0", "1", "9", "a", "f", "A", "F", "g", "x", "-", "+", " "}
\* Every byte occurs alone; longer arrays are made of these bytes.
InputBytes == {0, 1, 9, 10, 15, 16, 127, 128, 255}

RECURSIVE SeqsUpTo(_, _)
\* The sequences over S of length at most n.
SeqsUpTo(S, n) ==
    IF n = 0 THEN {<<>>}
    ELSE LET shorter == SeqsUpTo(S, n - 1)
         IN  shorter \cup {Append(s, x) : s \in shorter, x \in S}

HexInputs ==
    {[k |-> "str", v |-> s] : s \in SeqsUpTo(InputChars, MaxStrLen)}
    \cup {[k |-> "bytes", v |-> <<b>>] : b \in 0..255}
    \cup {[k |-> "bytes", v |-> s] : s \in SeqsUpTo(InputBytes, MaxBytesLen)}

\* A caller hands the current string to hexToBytes.
HexToBytes ==
    /\ Len(hexHist) < MaxPipe
    /\ hexHist[Len(hexHist)].k = "str"
    /\ hexHist' = Append(hexHist, hexToBytes(hexHist[Len(hexHist)].v))

\* A caller hands the current byte array to bytesToHex.
BytesToHex ==
    /\ Len(hexHist) < MaxPipe
    /\ hexHist[Len(hexHist)].k = "bytes"
    /\ hexHist' = Append(hexHist, bytesToHex(hexHist[Len(hexHist)].v))


(***************************************************************************)
(* The Select element.  An option is [value, disabled]; its label plays no *)
(* part in the element's state.  Indices are JavaScript's: 0-based, -1 for *)
(* "none".                                                                 *)
(***************************************************************************)
\* Bound of the options list.
MaxOptions == 2

OptionValues == {Null, Num(0), Num(1), Str(""), Str("a")}
Options == [value : OptionValues, disabled : BOOLEAN]
\* What an owner may assign to `value`.
SetterValues == OptionValues \cup {NaN, Str("b")}

\* options[index] of a JavaScript array: undefined outside the array.
OptionAt(index) ==
    IF index \in 0..(Len(options) - 1) THEN Ref(index + 1) ELSE Undefined

\* get value(): this.options[this.selectedIndex]?.value || null
value ==
    LET o == OptionAt(selectedIndex)
        v == IF o.k = "undefined" THEN Undefined ELSE options[o.v].value
    IN  IF ToBoolean(v) THEN v ELSE Null

\* this.options.findIndex((o) => o.value === val)
findIndex(val) ==
    IF \E i \in 1..Len(options) : StrictEquals(options[i].value, val)
    THEN (CHOOSE i \in 1..Len(options) :
              /\ StrictEquals(options[i].value, val)
              /\ \A j \in 1..(i - 1) : ~StrictEquals(options[j].value, val)) - 1
    ELSE -1

\* What an HTMLSelectElement with n options keeps of an assigned
\* selectedIndex: the index, or -1 when there is no such option.
DomIndex(index, n) == IF index \in 0..(n - 1) THEN index ELSE -1

\* The <select> of an element that has not rendered yet, and the record of
\* the element's construction.
NoSelect == [rendered |-> FALSE, disabled |-> <<>>, selectedIndex |-> -1]
NewSelect == [op |-> "new", val |-> Undefined, threw |-> FALSE]

\* set value(val).  Before the first render the @query getter yields null
\* and the inner assignment throws a TypeError with nothing assigned.
\* Afterwards both indices are assigned; the element's own selectedIndex
\* receives the value of the assignment expression, the found index.
SetValue(val) ==
    /\ selLast' = [op |-> "setValue", val |-> val, threw |-> ~select.rendered]
    /\ IF select.rendered
       THEN /\ select' = [select EXCEPT
                   !.selectedIndex = DomIndex(findIndex(val), Len(select.disabled))]
            /\ selectedIndex' = findIndex(val)
       ELSE UNCHANGED <<select, selectedIndex>>
    /\ UNCHANGED options

\* The owner assigns the options property.
SetOptions(opts) ==
    /\ options' = opts
    /\ selLast' = [op |-> "setOptions", val |-> Undefined, threw |-> FALSE]
    /\ UNCHANGED <<selectedIndex, select>>

\* lit updates the element: render() binds .selectedIndex and one <option>
\* per entry of options; updated() calls _propsChanged, whose body is empty.
\* The <select> ends with the bound index, with the index it had, or with the
\* first enabled option the browser picks when none is selected.
Render ==
    LET disabled == [i \in 1..Len(options) |-> options[i].disabled]
        n == Len(options)
        enabled == {i \in 1..n : ~disabled[i]}
        first == IF enabled = {} THEN -1
                 ELSE (CHOOSE i \in enabled : \A j \in enabled : i <= j) - 1
    IN  /\ \E index \in {DomIndex(selectedIndex, n),
                         DomIndex(select.selectedIndex, n), first} :
               select' = [rendered |-> TRUE, disabled |-> disabled,
                          selectedIndex |-> index]
        /\ selLast' = [op |-> "render", val |-> Undefined, threw |-> FALSE]
        /\ UNCHANGED <<options, selectedIndex>>

\* The user picks the enabled option at `index` of the rendered <select>;
\* the change event runs _changed().
Changed(index) ==
    /\ select.rendered
    /\ index \in 0..(Len(select.disabled) - 1)
    /\ ~select.disabled[index + 1]
    /\ select' = [select EXCEPT !.selectedIndex = index]
    /\ selectedIndex' = index
    /\ selLast' = [op |-> "changed", val |-> Undefined, threw |-> FALSE]
    /\ UNCHANGED options


(***************************************************************************)
(* Serializable.  The heap is a sequence of objects; an object's address   *)
(* is its index.  An object is [cls, props, elems]: cls is its class       *)
(* ("Object", "Array", "Serializable" or a subclass of it), props maps its *)
(* own enumerable property names to values, elems holds an array's         *)
(* elements.  A property name is a string, that is a sequence of           *)
(* characters.  The order of an object's properties is not modelled.       *)
(***************************************************************************)
P_name == <<"n", "a", "m", "e">>
P_type == <<"t", "y", "p", "e">>
P_m    == <<"m">>
P_k    == <<"_", "k">>

\* The classes that extend Serializable (Serializable itself included).
\* "Named" is a subclass that overrides validate() alone.
SerializableClasses == {"Serializable", "Named"}

Obj(cls, props) == [cls |-> cls, props |-> props, elems |-> <<>>]
Arr(elems) == [cls |-> "Array", props |-> <<>>, elems |-> elems]

\* val instanceof Serializable
InstanceOfSerializable(h, val) ==
    val.k = "ref" /\ h[val.v].cls \in SerializableClasses

\* Array.isArray(val)
IsArray(h, val) == val.k = "ref" /\ h[val.v].cls = "Array"

\* prop.startsWith(searchString)
startsWith(prop, searchString) ==
    /\ Len(prop) >= Len(searchString)
    /\ SubSeq(prop, 1, Len(searchString)) = searchString

\* The outcome of a call: the heap it leaves, the value it returns and the
\* name of the error it throws ("" when it returns).
Returns(h, v) == [h |-> h, v |-> v, err |-> ""]
Throws(h, e) == [h |-> h, v |-> Undefined, err |-> e]

\* new Err(ErrorCode.ENCODING_ERROR)
ENCODING_ERROR == "ENCODING_ERROR"

RECURSIVE toRawCall(_, _, _, _)
RECURSIVE toRawMap(_, _, _, _)
RECURSIVE toRawLoop(_, _, _, _, _, _)

\* val.map((each) => (each instanceof Serializable ? each.toRaw() : each)):
\* `out` holds the elements converted so far.
toRawMap(h, elems, out, fuel) ==
    IF elems = <<>> THEN Returns(h, out)
    ELSE LET each == Head(elems)
         IN  IF InstanceOfSerializable(h, each)
             THEN LET r == toRawCall(h, each.v, {}, fuel - 1)
                  IN  IF r.err # "" THEN r
                      ELSE toRawMap(r.h, Tail(elems), Append(out, r.v), fuel)
             ELSE toRawMap(h, Tail(elems), Append(out, each), fuel)

\* The loop of toRaw over Object.entries(this): `todo` are the entries still
\* to visit and `raw` is the address of the object being filled.
toRawLoop(h, self, exclude, todo, raw, fuel) ==
    IF todo = {} THEN Returns(h, Ref(raw))
    ELSE LET prop == CHOOSE p \in todo : TRUE
             val == h[self].props[prop]
             rest == todo \ {prop}
             Put(hh, v) == [hh EXCEPT ![raw].props = @ @@ (prop :> v)]
         IN  IF startsWith(prop, <<"_">>) \/ prop \in exclude
             THEN toRawLoop(h, self, exclude, rest, raw, fuel)
             ELSE IF InstanceOfSerializable(h, val)
             THEN LET r == toRawCall(h, val.v, {}, fuel - 1)
                  IN  IF r.err # "" THEN r
                      ELSE toRawLoop(Put(r.h, r.v), self, exclude, rest, raw, fuel)
             ELSE IF IsArray(h, val)
             THEN LET r == toRawMap(h, h[val.v].elems, <<>>, fuel)
                  IN  IF r.err # "" THEN r
                      ELSE LET h2 == Append(r.h, Arr(r.v))
                           IN  toRawLoop(Put(h2, Ref(Len(h2))), self, exclude,
                                         rest, raw, fuel)
             ELSE toRawLoop(Put(h, val), self, exclude, rest, raw, fuel)

\* this.toRaw(exclude) with `fuel` nested calls left on the JavaScript
\* stack: a chain of entities that never ends exhausts it (RangeError).
toRawCall(h, self, exclude, fuel) ==
    IF fuel = 0 THEN Throws(h, "RangeError")
    ELSE LET h1 == Append(h, Obj("Object", <<>>))
         IN  toRawLoop(h1, self, exclude, DOMAIN h[self].props, Len(h1), fuel)

\* toRaw as it would be were the exclude parameter never consulted.
toRawIgnoringExclude(h, self, exclude) == toRawCall(h, self, {}, Len(h) + 1)

\* toRaw(exclude): the stack is deep enough for any chain of distinct
\* objects.
toRaw(h, self, exclude) == toRawCall(h, self, exclude, Len(h) + 1)

\* Serializable.validate()
validateBase(h, self) == [threw |-> FALSE, ok |-> TRUE]

\* validate() of the subclass "Named": return this.name.length > 0.
\* Reading .length of undefined or null throws a TypeError.
validateNamed(h, self) ==
    IF P_name \notin DOMAIN h[self].props
    THEN [threw |-> TRUE, ok |-> FALSE]
    ELSE LET name == h[self].props[P_name]
         IN  CASE name.k \in {"undefined", "null"} -> [threw |-> TRUE, ok |-> FALSE]
               [] name.k = "str" -> [threw |-> FALSE, ok |-> name.v # ""]
               [] IsArray(h, name) -> [threw |-> FALSE, ok |-> h[name.v].elems # <<>>]
               [] OTHER -> [threw |-> FALSE, ok |-> FALSE]

\* this.validate(), dispatched on the class of this.
validate(h, self) ==
    IF h[self].cls = "Named" THEN validateNamed(h, self) ELSE validateBase(h, self)

\* The own enumerable string keys Object.assign copies from `raw`: none of
\* undefined, null or a number; an array's are its indices.
OwnKeys(h, raw) ==
    IF raw.k # "ref" THEN {}
    ELSE IF h[raw.v].cls = "Array"
    THEN {<<HexDigits[i]>> : i \in 1..Len(h[raw.v].elems)}
    ELSE DOMAIN h[raw.v].props

\* raw[key] for an own key of raw.
GetOwn(h, raw, key) ==
    IF h[raw.v].cls = "Array"
    THEN h[raw.v].elems[CHOOSE i \in 1..Len(h[raw.v].elems) : <<HexDigits[i]>> = key]
    ELSE h[raw.v].props[key]

\* The names Serializable.prototype defines with a getter and no setter
\* (get type()): assigning to one of them on an instance throws a TypeError.
GetterOnly == {P_type}

\* Object.assign(this, raw): the keys that can be assigned are, the others
\* make it throw.
assign(h, self, raw) ==
    LET keys == OwnKeys(h, raw)
        h1 == [h EXCEPT ![self].props =
                  [p \in (DOMAIN @ \cup (keys \ GetterOnly)) |->
                      IF p \in keys THEN GetOwn(h, raw, p) ELSE @[p]]]
    IN  IF keys \cap GetterOnly # {} THEN Throws(h1, "TypeError")
        ELSE Returns(h1, Ref(self))

\* this.fromRaw(raw)
fromRaw(h, self, raw) ==
    LET a == assign(h, self, raw)
        valid == validate(a.h, self)
    IN  IF a.err # "" THEN a
        ELSE IF valid.threw \/ ~valid.ok THEN Throws(a.h, ENCODING_ERROR)
        ELSE Returns(a.h, Ref(self))

\* this.clone(): new this.constructor().fromRaw(this.toRaw())
clone(h, self) ==
    LET h1 == Append(h, Obj(h[self].cls, <<>>))
        r == toRaw(h1, self, {})
    IN  IF r.err # "" THEN r ELSE fromRaw(r.h, Len(h1), r.v)


(***************************************************************************)
(* JSON.  A JSON text is modelled by the document it spells, a tree [j, p] *)
(* (j the node's kind, p its payload), or by the one node "malformed" for  *)
(* a text no document spells.  A JavaScript string that holds JSON text is *)
(* the value [k |-> "jsontext", v |-> the document].                       *)
(***************************************************************************)
JNull == [j |-> "null", p |-> 0]
JNum(n) == [j |-> "num", p |-> n]
JStr(str) == [j |-> "str", p |-> str]
\* A JSON string whose characters are themselves the JSON text of doc.
JText(doc) == [j |-> "text", p |-> doc]
JArr(docs) == [j |-> "arr", p |-> docs]
JObj(members) == [j |-> "obj", p |-> members]
Malformed == [j |-> "malformed", p |-> 0]
JsonText(doc) == [k |-> "jsontext", v |-> doc]

\* The outcome of serializing one value: a document, or `undef` when
\* JSON.stringify yields undefined for it, or the error thrown.
Doc(d) == [err |-> "", undef |-> FALSE, doc |-> d]
NoDoc == [err |-> "", undef |-> TRUE, doc |-> JNull]
DocThrows(e) == [err |-> e, undef |-> FALSE, doc |-> JNull]

RECURSIVE stringifyValue(_, _, _, _)
RECURSIVE stringifyElems(_, _, _, _, _)
RECURSIVE stringifyProps(_, _, _, _, _, _)

\* JSON.stringify applied to each element of an array: undefined becomes
\* null.
stringifyElems(h, elems, out, stack, fuel) ==
    IF elems = <<>> THEN Doc(JArr(out))
    ELSE LET r == stringifyValue(h, Head(elems), stack, fuel)
         IN  IF r.err # "" THEN r
             ELSE stringifyElems(h, Tail(elems),
                                 Append(out, IF r.undef THEN JNull ELSE r.doc),
                                 stack, fuel)

\* JSON.stringify applied to each property of an object: a property whose
\* value yields undefined is left out.
stringifyProps(h, a, todo, out, stack, fuel) ==
    IF todo = {} THEN Doc(JObj(out))
    ELSE LET prop == CHOOSE p \in todo : TRUE
             r == stringifyValue(h, h[a].props[prop], stack, fuel)
         IN  IF r.err # "" THEN r
             ELSE stringifyProps(h, a, todo \ {prop},
                                 IF r.undef THEN out ELSE out @@ (prop :> r.doc),
                                 stack, fuel)

\* JSON.stringify of one value.  `stack` holds the objects being
\* serialized: meeting one of them again is a cycle (TypeError).  An object
\* with a toJSON method, as every Serializable has, is replaced by what
\* toJSON() returns, here a string of JSON text.
stringifyValue(h, val, stack, fuel) ==
    CASE val.k = "undefined" -> NoDoc
      [] val.k \in {"null", "NaN"} -> Doc(JNull)
      [] val.k = "num" -> Doc(JNum(val.v))
      [] val.k = "str" -> Doc(JStr(val.v))
      [] val.k = "jsontext" -> Doc(JText(val.v))
      [] val.k = "ref" ->
            IF InstanceOfSerializable(h, val)
            THEN IF fuel = 0 THEN DocThrows("RangeError")
                 ELSE LET raw == toRawCall(h, val.v, {}, fuel)
                          r == stringifyValue(raw.h, raw.v, {}, fuel - 1)
                      IN  IF raw.err # "" THEN DocThrows(raw.err)
                          ELSE IF r.err # "" THEN r
                          ELSE Doc(JText(r.doc))
            ELSE IF val.v \in stack THEN DocThrows("TypeError")
            ELSE IF h[val.v].cls = "Array"
            THEN stringifyElems(h, h[val.v].elems, <<>>, stack \cup {val.v}, fuel)
            ELSE stringifyProps(h, val.v, DOMAIN h[val.v].props, <<>>,
                                stack \cup {val.v}, fuel)

\* JSON.stringify(obj): the text, or the error thrown.
stringify(h, obj) ==
    LET r == stringifyValue(h, obj, {}, Len(h) + 1)
    IN  IF r.err # "" THEN Throws(h, r.err)
        ELSE IF r.undef THEN Returns(h, Undefined)
        ELSE Returns(h, JsonText(r.doc))

RECURSIVE parseDoc(_, _)
RECURSIVE parseElems(_, _, _)
RECURSIVE parseMembers(_, _, _, _)

parseElems(h, docs, out) ==
    IF docs = <<>> THEN Returns(Append(h, Arr(out)), Ref(Len(h) + 1))
    ELSE LET r == parseDoc(h, Head(docs))
         IN  parseElems(r.h, Tail(docs), Append(out, r.v))

parseMembers(h, members, todo, out) ==
    IF todo = {} THEN Returns(Append(h, Obj("Object", out)), Ref(Len(h) + 1))
    ELSE LET key == CHOOSE p \in todo : TRUE
             r == parseDoc(h, members[key])
         IN  parseMembers(r.h, members, todo \ {key}, out @@ (key :> r.v))

\* The value a well-formed document denotes, built of new objects.
parseDoc(h, doc) ==
    CASE doc.j = "null" -> Returns(h, Null)
      [] doc.j = "num" -> Returns(h, Num(doc.p))
      [] doc.j = "str" -> Returns(h, Str(doc.p))
      [] doc.j = "text" -> Returns(h, JsonText(doc.p))
      [] doc.j = "arr" -> parseElems(h, doc.p, <<>>)
      [] doc.j = "obj" -> parseMembers(h, doc.p, DOMAIN doc.p, <<>>)

\* JSON.parse(text): SyntaxError for a text that spells no document.
parse(h, text) ==
    IF text.k # "jsontext" \/ text.v = Malformed THEN Throws(h, "SyntaxError")
    ELSE parseDoc(h, text.v)

\* marshal(obj): any failure of JSON.stringify becomes an EncodingError.
marshal(h, obj) ==
    LET r == stringify(h, obj)
    IN  IF r.err # "" THEN Throws(h, ENCODING_ERROR) ELSE r

\* unmarshal(str): any failure of JSON.parse becomes an EncodingError.
unmarshal(h, str) ==
    LET r == parse(h, str)
    IN  IF r.err # "" THEN Throws(h, ENCODING_ERROR) ELSE r

\* this.toJSON(): JSON.stringify(this.toRaw()).  The raw value is dropped
\* once the text is made, so the heap is left as it was.
toJSON(h, self) ==
    LET raw == toRaw(h, self, {})
        r == stringify(raw.h, raw.v)
    IN  IF raw.err # "" THEN Throws(h, raw.err)
        ELSE IF r.err # "" THEN Throws(h, r.err)
        ELSE Returns(h, r.v)

\* this.fromJSON(json): this.fromRaw(JSON.parse(json))
fromJSON(h, self, json) ==
    LET r == parse(h, json)
    IN  IF r.err # "" THEN r ELSE fromRaw(r.h, self, r.v)

\* stringToBytes(str): the UTF-8 encoding of the text.  TextEncoder encodes
\* every string, so the catch clause is never entered.
stringToBytes(str) == [k |-> "utf8", v |-> str.v]

\* Bytes that are not the UTF-8 encoding of any JSON text.
InvalidBytes == [k |-> "utf8", v |-> Malformed]

\* bytesToString(bytes): TextDecoder, not being fatal, decodes every byte
\* sequence (ill-formed ones to replacement characters), so the catch clause
\* is never entered.
bytesToString(bytes) == [k |-> "jsontext", v |-> bytes.v]

\* this.toBytes(): stringToBytes(this.toJSON())
toBytes(h, self) ==
    LET r == toJSON(h, self)
    IN  IF r.err # "" THEN r ELSE Returns(r.h, stringToBytes(r.v))

\* this.fromBytes(bytes): this.fromJSON(bytesToString(bytes))
fromBytes(h, self, bytes) == fromJSON(h, self, bytesToString(bytes))


(***************************************************************************)
(* The entities the operations are applied to.  The root entity is at      *)
(* address 1; its property m is absent, a scalar, or the head of a chain   *)
(* of objects each holding the next: an array [next, 1], a plain object    *)
(* {m: next} or an entity {m: next, _k: 1}.  The chain ends in a string,   *)
(* in a leaf entity, or in a reference back to its own object.             *)
(***************************************************************************)
\* Bounds: the length of a chain, and the number of operations of a run.
MaxDepth == 2
MaxOps == 2

Wrappers == {"Array", "Object", "Serializable"}
Scalars == {Undefined, NaN, Num(1), Str("x")}

WrapObj(w, inner) ==
    CASE w = "Array" -> Arr(<<inner, Num(1)>>)
      [] w = "Object" -> Obj("Object", P_m :> inner)
      [] w = "Serializable" -> Obj("Serializable", (P_m :> inner) @@ (P_k :> Num(1)))

LeafEntity == Obj("Serializable", (P_m :> Str("x")) @@ (P_k :> Num(1)))

\* The objects of the chain ws ending in leaf, placed from address 2 on.
ChainObjs(ws, leaf) ==
    LET n == Len(ws)
        inner(i) == IF i < n THEN Ref(i + 2)
                    ELSE CASE leaf = "string" -> Str("x")
                           [] leaf = "self" -> Ref(n + 1)
                           [] leaf = "entity" -> Ref(n + 2)
    IN  [i \in 1..n |-> WrapObj(ws[i], inner(i))]
        \o (IF leaf = "entity" THEN <<LeafEntity>> ELSE <<>>)

\* A reference back to the chain's own object is made for chains of one
\* object.
Chains ==
    {[ws |-> ws, leaf |-> leaf] :
        ws \in SeqsUpTo(Wrappers, MaxDepth) \ {<<>>}, leaf \in {"string", "entity"}}
    \cup {[ws |-> <<w>>, leaf |-> "self"] : w \in Wrappers}

\* The root entity without m: unpopulated, or populated by the application
\* with a name (valid or not for its class) and a private _k.
Roots ==
    {Obj(cls, <<>>) : cls \in SerializableClasses}
    \cup {Obj(cls, (P_name :> Str("x")) @@ (P_k :> Num(1))) : cls \in SerializableClasses}
    \cup {Obj("Named", (P_name :> Str("")) @@ (P_k :> Num(1)))}

\* The root entities that are given an m.
Populated ==
    {Obj(cls, (P_name :> Str("x")) @@ (P_k :> Num(1))) : cls \in SerializableClasses}

WithM(root, val) == [root EXCEPT !.props = @ @@ (P_m :> val)]

InitHeaps ==
    {<<root>> : root \in Roots}
    \cup {<<WithM(root, val)>> : root \in Populated, val \in Scalars}
    \cup {<<WithM(root, Ref(2)), LeafEntity>> : root \in Populated}
    \cup {<<WithM(root, Ref(2))>> \o ChainObjs(c.ws, c.leaf) :
              root \in Populated, c \in Chains}

\* The record of an operation: its name, the entity it was called on, its
\* argument and where the caller had it from ("returned": it is what toRaw(),
\* toJSON() or toBytes() of the root returned just before), the exclude list, the error thrown ("" for
\* none) and the value returned.
Outcome(op, self, arg, given, exclude, r) ==
    [op |-> op, self |-> self, arg |-> arg, given |-> given,
     exclude |-> exclude, err |-> r.err, val |-> r.v]

\* The entity at address 1.
Root == 1

\* What a caller passes as exclude.
Excludes == {{}, {P_m}, {P_name, P_k}}

\* The raw values a caller writes down as object literals.
RawLiterals ==
    {<<>>, P_name :> Str("x"), P_name :> Str(""), P_type :> Str("x")}

\* The JSON texts and byte sequences a caller receives from outside.
ForeignTexts ==
    {JsonText(Malformed), JsonText(JObj(P_name :> JStr("x"))),
     JsonText(JObj(P_type :> JStr("x")))}
ForeignBytes == {InvalidBytes, stringToBytes(JsonText(JObj(P_name :> JStr(""))))}

\* The entities a restoring operation is called on: the root, or a new
\* instance of the root's class (address 0 stands for "new").
Targets == {Root, 0}

\* The heap and address of the target: a new instance is allocated first.
TargetHeap(h, target) ==
    IF target = 0 THEN Append(h, Obj(h[Root].cls, <<>>)) ELSE h
TargetAddr(h, target) == IF target = 0 THEN Len(h) + 1 ELSE target

Step(r, op, self, arg, given, exclude) ==
    /\ nops < MaxOps
    /\ nops' = nops + 1
    /\ pre' = heap
    /\ heap' = r.h
    /\ ret' = Outcome(op, self, arg, given, exclude, r)

\* root.toRaw(exclude)
ToRaw(exclude) ==
    Step(toRaw(heap, Root, exclude), "toRaw", Root, Undefined, "none", exclude)

\* target.fromRaw(raw) with raw an object literal
FromRawLiteral(target, literal) ==
    LET h1 == Append(TargetHeap(heap, target), Obj("Object", literal))
        self == TargetAddr(heap, target)
    IN  Step(fromRaw(h1, self, Ref(Len(h1))), "fromRaw", self, Ref(Len(h1)),
             "literal", {})

\* target.fromRaw(raw) with raw undefined or the value toRaw just returned
FromRawValue(target, raw) ==
    /\ raw = Undefined \/ (ret.op = "toRaw" /\ ret.err = "" /\ raw = ret.val)
    /\ Step(fromRaw(TargetHeap(heap, target), TargetAddr(heap, target), raw),
            "fromRaw", TargetAddr(heap, target), raw,
            IF raw = Undefined THEN "literal"
            ELSE IF ret.exclude = {} THEN "returned" ELSE "partial", {})

\* root.clone()
Clone == Step(clone(heap, Root), "clone", Root, Undefined, "none", {})

\* root.toJSON()
ToJSON == Step(toJSON(heap, Root), "toJSON", Root, Undefined, "none", {})

\* target.fromJSON(json) with json a foreign text or the text toJSON just
\* returned
FromJSON(target, json) ==
    /\ json \in ForeignTexts \/ (ret.op = "toJSON" /\ ret.err = "" /\ json = ret.val)
    /\ Step(fromJSON(TargetHeap(heap, target), TargetAddr(heap, target), json),
            "fromJSON", TargetAddr(heap, target), json,
            IF ret.op = "toJSON" /\ ret.err = "" /\ json = ret.val
            THEN "returned" ELSE "foreign", {})

\* root.toBytes()
ToBytes == Step(toBytes(heap, Root), "toBytes", Root, Undefined, "none", {})

\* target.fromBytes(bytes) with bytes foreign or what toBytes just returned
FromBytes(target, bytes) ==
    /\ bytes \in ForeignBytes \/ (ret.op = "toBytes" /\ ret.err = "" /\ bytes = ret.val)
    /\ Step(fromBytes(TargetHeap(heap, target), TargetAddr(heap, target), bytes),
            "fromBytes", TargetAddr(heap, target), bytes,
            IF ret.op = "toBytes" /\ ret.err = "" /\ bytes = ret.val
            THEN "returned" ELSE "foreign", {})

(***************************************************************************)
(* The specifications.                                                     *)
(***************************************************************************)
\* No operation on any entity.
NoOutcome == Outcome("none", 0, Undefined, "none", {}, Returns(<<>>, Undefined))

HexNext ==
    \/ HexToBytes /\ UNCHANGED <<selVars, serVars>>
    \/ BytesToHex /\ UNCHANGED <<selVars, serVars>>

SelNext ==
    \/ \E val \in SetterValues : SetValue(val) /\ UNCHANGED <<hexVars, serVars>>
    \/ \E opts \in SeqsUpTo(Options, MaxOptions) :
           SetOptions(opts) /\ UNCHANGED <<hexVars, serVars>>
    \/ Render /\ UNCHANGED <<hexVars, serVars>>
    \/ \E index \in 0..(MaxOptions - 1) : Changed(index) /\ UNCHANGED <<hexVars, serVars>>

Next ==
    \/ \E exclude \in Excludes : ToRaw(exclude) /\ UNCHANGED <<hexVars, selVars>>
    \/ \E target \in Targets, literal \in RawLiterals :
           FromRawLiteral(target, literal) /\ UNCHANGED <<hexVars, selVars>>
    \/ \E target \in Targets, raw \in {Undefined, ret.val} :
           FromRawValue(target, raw) /\ UNCHANGED <<hexVars, selVars>>
    \/ Clone /\ UNCHANGED <<hexVars, selVars>>
    \/ ToJSON /\ UNCHANGED <<hexVars, selVars>>
    \/ \E target \in Targets, json \in ForeignTexts \cup {ret.val} :
           FromJSON(target, json) /\ UNCHANGED <<hexVars, selVars>>
    \/ ToBytes /\ UNCHANGED <<hexVars, selVars>>
    \/ \E target \in Targets, bytes \in ForeignBytes \cup {ret.val} :
           FromBytes(target, bytes) /\ UNCHANGED <<hexVars, selVars>>

\* The hex codec is given an input; there is no element and no entity.
HexInit ==
    /\ hexHist \in {<<x>> : x \in HexInputs}
    /\ options = <<>>
    /\ selectedIndex = -1
    /\ select = NoSelect
    /\ selLast = NewSelect
    /\ heap = <<>>
    /\ pre = <<>>
    /\ ret = NoOutcome
    /\ nops = 0

\* The element is constructed: options = [], selectedIndex = -1, nothing
\* rendered.
SelInit ==
    /\ hexHist = <<>>
    /\ options = <<>>
    /\ selectedIndex = -1
    /\ select = NoSelect
    /\ selLast = NewSelect
    /\ heap = <<>>
    /\ pre = <<>>
    /\ ret = NoOutcome
    /\ nops = 0

\* The root entity has been constructed and populated by the application.
Init ==
    /\ hexHist = <<>>
    /\ options = <<>>
    /\ selectedIndex = -1
    /\ select = NoSelect
    /\ selLast = NewSelect
    /\ heap \in InitHeaps
    /\ pre = heap
    /\ ret = Outcome("new", Root, Undefined, "none", {}, Returns(heap, Ref(Root)))
    /\ nops = 0

SpecHex == HexInit /\ [][HexNext]_vars
SpecSelect == SelInit /\ [][SelNext]_vars
Spec == Init /\ [][Next]_vars

(***************************************************************************)
(* Properties of the hex codec (SpecHex).                                  *)
(***************************************************************************)
LowerHex == {HexDigits[i] : i \in 1..16}
AnyHex == LowerHex \cup {UpperHexDigits[i] : i \in 1..16}

\* C5: for every byte sequence b, bytesToHex(b) has exactly 2 * len(b)
\* characters, all of them lowercase hex digits, a byte below 16 written
\* with a leading "0", and hexToBytes(bytesToHex(b)) is b again.
C5_HexRoundTrip ==
    \A i \in 1..(Len(hexHist) - 1) :
        hexHist[i].k = "bytes" =>
            LET b == hexHist[i].v
                hex == hexHist[i + 1]
            IN  /\ hex.k = "str"
                /\ Len(hex.v) = 2 * Len(b)
                /\ \A j \in 1..Len(hex.v) : hex.v[j] \in LowerHex
                /\ \A j \in 1..Len(b) : b[j] < 16 => hex.v[2 * j - 1] = "0"
                /\ i + 2 <= Len(hexHist) =>
                       /\ hexHist[i + 2].k = "bytes"
                       /\ hexHist[i + 2].v = b

\* C5's case: two bytes, one of them a single hex digit, encoded and
\* decoded.
C5_Witness ==
    /\ Len(hexHist) = 3
    /\ hexHist[1].k = "bytes"
    /\ hexHist[1].v = <<10, 255>>
    /\ hexHist[2].v = <<"0", "a", "f", "f">>
    /\ hexHist[3].v = <<10, 255>>

\* C4: hexToBytes fails (returns no byte sequence) for every text of odd
\* length and for every text with a character outside [0-9a-fA-F].
C4_HexInputRule ==
    \A i \in 1..(Len(hexHist) - 1) :
        /\ hexHist[i].k = "str"
        /\ \/ Len(hexHist[i].v) % 2 = 1
           \/ \E j \in 1..Len(hexHist[i].v) : hexHist[i].v[j] \notin AnyHex
        => hexHist[i + 1].k # "bytes"

(***************************************************************************)
(* Properties of Select (SpecSelect).                                      *)
(***************************************************************************)
\* C10: after the value setter is called with val, the getter returns val
\* if some option has value === val and null otherwise; and at any time the
\* getter returns the value of the option at selectedIndex when that is an
\* index into options, and null when it is not.
C10_SetGetAgree ==
    /\ selLast.op = "setValue" /\ ~selLast.threw =>
           value = IF \E i \in 1..Len(options) :
                          StrictEquals(options[i].value, selLast.val)
                   THEN selLast.val ELSE Null
    /\ value = IF selectedIndex \in 0..(Len(options) - 1)
               THEN options[selectedIndex + 1].value ELSE Null


(***************************************************************************)
(* Properties of Serializable (Spec).                                      *)
(***************************************************************************)
\* A name with the private prefix.
IsPrivate(p) == p # <<>> /\ Head(p) = "_"

\* The objects an object refers to, through any property or element, or
\* through its elements alone.
Children(h, a) ==
    {b \in DOMAIN h :
        \/ \E p \in DOMAIN h[a].props : h[a].props[p] = Ref(b)
        \/ \E i \in DOMAIN h[a].elems : h[a].elems[i] = Ref(b)}
Elements(h, a) ==
    {b \in DOMAIN h : \E i \in DOMAIN h[a].elems : h[a].elems[i] = Ref(b)}

RECURSIVE ReachFrom(_, _, _)
ReachFrom(h, frontier, seen) ==
    IF frontier \subseteq seen THEN seen
    ELSE ReachFrom(h, UNION {Children(h, a) : a \in frontier \ seen},
                   seen \cup frontier)

\* The objects reachable from the object at a, itself included.
Reach(h, a) == ReachFrom(h, {a}, {})

RECURSIVE ElementsFrom(_, _, _)
ElementsFrom(h, frontier, seen) ==
    IF frontier \subseteq seen THEN seen
    ELSE ElementsFrom(h, UNION {Elements(h, a) : a \in frontier \ seen},
                      seen \cup frontier)

\* The objects a raw value holds in its properties or, at any depth, in the
\* sequences its properties hold.
InSequencesOf(h, raw) ==
    ElementsFrom(h, {b \in DOMAIN h : \E p \in DOMAIN h[raw].props :
                                         h[raw].props[p] = Ref(b)}, {})

\* Whether the last operation returned, and the address it returned.
Returned == ret.err = ""
Restoring == {"fromRaw", "fromJSON", "fromBytes"}

\* The properties the entity of the last operation had when it began (none
\* when the operation made the entity).
PropsBefore == IF ret.self \in DOMAIN pre THEN pre[ret.self].props ELSE <<>>

\* C1: fromRaw(raw) either returns the entity with validate() true, or
\* fails with EncodingError; no other failure reaches the caller.
C1_ValidationGate ==
    ret.op = "fromRaw" =>
        \/ /\ Returned
           /\ ret.val = Ref(ret.self)
           /\ ~validate(heap, ret.self).threw
           /\ validate(heap, ret.self).ok
        \/ ret.err = ENCODING_ERROR

C7_RecursiveToRaw ==
    ret.op = "toRaw" /\ Returned =>
        \A b \in InSequencesOf(heap, ret.val.v) : ~InstanceOfSerializable(heap, Ref(b))

\* C8: a restoring call that fails with EncodingError leaves the entity
\* with the properties it had before the call.
C8_FailureLeavesEntity ==
    ret.op \in Restoring /\ ret.err = ENCODING_ERROR =>
        heap[ret.self].props = PropsBefore

\* C9: the clone is a new instance of the same class and shares no object
\* with the original.
C9_CloneIsDeep ==
    ret.op = "clone" /\ Returned =>
        /\ ret.val.k = "ref"
        /\ ret.val.v \notin DOMAIN pre
        /\ heap[ret.val.v].cls = heap[Root].cls
        /\ Reach(heap, ret.val.v) \cap Reach(heap, Root) = {}

\* C3: fromJSON and fromBytes fail as unmarshal does on the text they are
\* given, and toJSON and toBytes fail as marshal does on toRaw(): with an
\* EncodingError.
C3_ErrorNormalization ==
    /\ ret.op \in {"fromJSON", "fromBytes"} =>
           LET text == IF ret.op = "fromBytes" THEN bytesToString(ret.arg) ELSE ret.arg
           IN  unmarshal(pre, text).err # "" => ret.err = unmarshal(pre, text).err
    /\ ret.op \in {"toJSON", "toBytes"} =>
           LET raw == toRaw(pre, Root, {})
           IN  raw.err = "" => ret.err = marshal(raw.h, raw.v).err


\* The properties structural equality looks at: the public ones that hold
\* a value.
PublicKeys(h, a) ==
    {p \in DOMAIN h[a].props : ~IsPrivate(p) /\ h[a].props[p] # Undefined}

RECURSIVE StructEq(_, _, _, _)
\* Structural equality of two values on public properties: equal scalars,
\* or sequences of equal length with equal elements, or objects (of any
\* class) with the same public keys and equal values under them.  `seen`
\* holds the pairs of objects already being compared.
StructEq(h, x, y, seen) ==
    IF x.k # "ref" \/ y.k # "ref" THEN x.k = y.k /\ x.v = y.v
    ELSE IF x.v = y.v \/ <<x.v, y.v>> \in seen THEN TRUE
    ELSE LET a == h[x.v]
             b == h[y.v]
             now == seen \cup {<<x.v, y.v>>}
         IN  /\ (a.cls = "Array") = (b.cls = "Array")
             /\ Len(a.elems) = Len(b.elems)
             /\ \A i \in 1..Len(a.elems) : StructEq(h, a.elems[i], b.elems[i], now)
             /\ PublicKeys(h, x.v) = PublicKeys(h, y.v)
             /\ \A p \in PublicKeys(h, x.v) : StructEq(h, a.props[p], b.props[p], now)

\* An entity made of what JSON can spell: below it there are only strings,
\* numbers, sequences and entities.
Spellable(h, a) ==
    \A b \in Reach(h, a) :
        /\ b # a => h[b].cls # "Object"
        /\ \A p \in DOMAIN h[b].props : h[b].props[p].k \in {"num", "str", "ref"}
        /\ \A i \in DOMAIN h[b].elems : h[b].elems[i].k \in {"num", "str", "ref"}

\* C2: for a valid entity e, a new entity of the same class restored from
\* e.toRaw(), from e.toJSON() or from e.toBytes() is structurally equal to e
\* on every public property, nested entities and sequences of them
\* included.
C2_RoundTrip ==
    /\ Returned
    /\ validate(heap, Root).ok
    /\ Spellable(heap, Root)
    /\ \/ ret.op = "clone"
       \/ ret.op \in Restoring /\ ret.given = "returned" /\ ret.self \notin DOMAIN pre
    => StructEq(heap, Ref(Root), ret.val, {})

=============================================================================
